---- MODULE Spec2Model ----
(***************************************************************************)
(* Model of Lyra Blackwall Alpha.                                          *)
(*                                                                         *)
(* The AI request queue (src/modules/ai_queue_system.py): one caller       *)
(* thread that enqueues, cancels, clears, stops and starts, and worker     *)
(* threads that take requests from a FIFO queue.Queue and run the          *)
(* processor callback.                                                     *)
(*                                                                         *)
(* The heart (heart.py): start, stop and the beat-loop thread.             *)
(*                                                                         *)
(* The memory system (src/modules/memory_system.py): the profile template, *)
(* the profiles and memories held per user and the files under memory/.    *)
(*                                                                         *)
(* The dispatch (src/modules/quantum_kitchen.py and on_message of          *)
(* src/core/quantum_discord_bot.py): one coroutine per message, which      *)
(* advances from one await to the next.                                    *)
(***************************************************************************)
EXTENDS Integers, Sequences, FiniteSets, TLC

\* ---------------------------------------------------------------- bounds
MaxReq == 3          \* requests created in one behaviour
MaxTime == 1         \* last reading of the clock (time.time(), datetime.now())
MaxStarts == 1       \* calls of start_ai_workers after the constructor's
MaxBeats == 1        \* pulses of the heart
MaxMsgs == 2         \* messages handled in one behaviour
MaxLines == 2        \* context lines held by one memory_context_index
MaxCount == 2        \* interaction_count of one system_metadata
Contents == {"a", "b"}  \* message texts
MainContent == "a"
HardCap == 2         \* stands for the 1000 of the specified queue.maxSize
Users == {"u1", "u2"}   \* user ids of the callers
MainUser == "u1"
Priorities == {5, 9}

\* ------------------------------------------------------ program constants
max_concurrent_ai == 2
default_priority == 5

\* the deadline of a request in seconds, and the total timeouts of the
\* three HTTP calls
requestDeadline == 600
particle_unbounded == requestDeadline + 1
particle_timeout == 300
wave_timeout == 60
embedding_timeout == 30

VARIABLES
    requests,             \* every AIRequest object created, by creation index
    request_queue,        \* queue.Queue: object indices, head first
    active_requests,      \* dict request_id -> object index
    completed_requests,   \* dict request_id -> object index
    stats,                \* total_queued, total_processed, total_failed, current_queue_size
    avg_samples,          \* number of samples folded into stats["avg_response_time"]
    ai_processor,         \* FALSE is None, TRUE is a callable
    running,
    worker,               \* per worker thread: pc, held request, register
    cancel_pc,            \* position of the caller inside cancel_request
    cancel_target,        \* the request the scan of cancel_request matched
    acked,                \* objects for which cancel_request returned True
    cleared,              \* objects removed by clear_queue
    dispatches,           \* per object: number of times a worker took it
    heart,                \* Heart: alive, state, live beat-loop threads, beat_count
    default_template,     \* MemorySystem.default_template and its nested dicts
    user_memories,        \* MemorySystem.user_memories: per user, profile and memories
    disk,                 \* memory/<user>/: profile.json and memories/*.json
    last_call,            \* the last MemorySystem call: operation, user, raised or not
    kitchen_memories,     \* user_memories of the memory_system quantum_kitchen imports
    handlers,             \* the on_message coroutines, in order of arrival
    active_superpositions,  \* QuantumChef.active_superpositions
    collapse_history,     \* QuantumChef.collapse_history
    observer_metrics,     \* QuantumChef.observer_metrics
    current_state         \* PersonalityEngine.current_state

queueVars == <<requests, request_queue, active_requests, completed_requests,
               stats, avg_samples, ai_processor, running, worker, cancel_pc,
               cancel_target, acked, cleared, dispatches>>

\* the state outside the request queue
memVars == <<default_template, user_memories, disk, last_call,
            kitchen_memories>>

dispatchVars == <<handlers, active_superpositions, collapse_history,
                  observer_metrics>>

engineVars == <<current_state>>

nonQueueVars == <<heart, memVars, dispatchVars, engineVars>>
nonHeartVars == <<queueVars, memVars, dispatchVars, engineVars>>
nonMemVars == <<queueVars, heart, dispatchVars, engineVars>>
nonDispatchVars == <<queueVars, heart, engineVars>>

vars == <<queueVars, nonQueueVars>>

Obj == 1..MaxReq
None == [status |-> "none"]
EmptyDict == [k \in {} |-> 0]

\* range(self.max_concurrent_ai) of start_ai_workers
WorkersPlusOne == 1..(max_concurrent_ai + 1)
Workers == 1..max_concurrent_ai

\* f"ai_{int(time.time() * 1000)}_{user_id}"
make_request_id(t, u) == <<"ai", t, u>>

\* dict[k] = v and del dict[k]
DictSet(d, k, v) == [x \in (DOMAIN d) \cup {k} |-> IF x = k THEN v ELSE d[x]]
DictDel(d, k) == [x \in (DOMAIN d) \ {k} |-> d[x]]

\* queue.Queue.qsize()
qsize == Len(request_queue)

\* queue.Queue.get(): the head leaves the queue
QueueAfterPeek(q) == q
QueueAfterGet(q) == Tail(q)

\* a started worker thread: inside while self.running:, blocked in
\* request_queue.get(timeout=1.0); a timed-out get with running still true
\* comes back to the same place
IdleWorker == [pc |-> "get", request |-> 0, tmp |-> 0]

QueueInit ==
    /\ requests = << >>
    /\ request_queue = << >>
    /\ active_requests = EmptyDict
    /\ completed_requests = EmptyDict
    /\ stats = [total_queued |-> 0, total_processed |-> 0, total_failed |-> 0,
                current_queue_size |-> 0]
    /\ avg_samples = 0
    /\ ai_processor = FALSE
    /\ running = TRUE
    /\ worker = [w \in Workers |-> IdleWorker]
    /\ cancel_pc = "idle"
    /\ cancel_target = 0
    /\ acked = {}
    /\ cleared = {}
    /\ dispatches = [o \in Obj |-> 0]

\* Heart.__init__
HeartInit ==
    heart = [alive |-> FALSE, state |-> "idle", threads |-> 0, beat_count |-> 0]

\* a dict key that is not there, a nested dict shared with the template,
\* a nested dict of the profile's own
NoIndex == [kind |-> "absent", context_lines |-> << >>, total_memories |-> 0]
SharedIndex == [kind |-> "shared", context_lines |-> << >>, total_memories |-> 0]
EmptyIndex == [kind |-> "own", context_lines |-> << >>, total_memories |-> 0]
SharedMeta == [kind |-> "shared", interaction_count |-> 0]
FreshMeta == [kind |-> "own", interaction_count |-> 0]
NoProfile == [kind |-> "none", index |-> NoIndex, meta |-> SharedMeta]
NewUser == [profile |-> NoProfile, memories |-> {}]
NoFile == [kind |-> "absent", index |-> NoIndex, meta |-> FreshMeta]
PartialFile == [kind |-> "partial", index |-> NoIndex, meta |-> FreshMeta]
EmptyDir == [profile |-> NoFile, files |-> EmptyDict]

\* Dev/default_profile_template.json as _load_memory_files reads it: not
\* there (default_template stays {}), without or with a memory_context_index
TemplateKinds == {"missing", "no_index", "with_index"}
LoadedTemplate(kind) ==
    [kind |-> kind,
     index |-> IF kind = "with_index" THEN EmptyIndex ELSE NoIndex,
     meta |-> FreshMeta]

\* MemorySystem.__init__ over an empty memory directory
MemoryInit(kind) ==
    /\ default_template = LoadedTemplate(kind)
    /\ user_memories = EmptyDict
    /\ disk = EmptyDict
    /\ last_call = [op |-> "init", user |-> MainUser, raised |-> FALSE]
    /\ kitchen_memories = EmptyDict

\* QuantumChef.__init__, no message received yet
EMOTIONAL_AXES ==
    <<"Desire", "Logic", "Compassion", "Stability", "Autonomy", "Recursion",
      "Protection", "Vulnerability", "Paradox">>

\* EmotionalState(): every axis at 0.0, no fragments.  The weights are kept
\* as integers over the common denominator total (0: not normalised)
EmotionalState(user_id) ==
    [user_id |-> user_id,
     accumulated_weights |-> [i \in 1..Len(EMOTIONAL_AXES) |-> 0], total |-> 0,
     dominant_fragments |-> << >>]

DispatchInit ==
    /\ current_state = EmotionalState("")
    /\ handlers = << >>
    /\ active_superpositions = EmptyDict
    /\ collapse_history = << >>
    /\ observer_metrics = [total_collapses |-> 0, successful_collapses |-> 0]

Init ==
    /\ QueueInit
    /\ HeartInit
    /\ MemoryInit("with_index")
    /\ DispatchInit

\* ------------------------------------------------------------ the caller
set_ai_processor ==
    /\ cancel_pc = "idle"
    /\ ~ai_processor
    /\ ai_processor' = TRUE
    /\ UNCHANGED <<requests, request_queue, active_requests,
                   completed_requests, stats, avg_samples, running, worker,
                   cancel_pc, cancel_target, acked, cleared, dispatches>>
    /\ UNCHANGED nonQueueVars

stop_ai_workers ==
    /\ cancel_pc = "idle"
    /\ running
    /\ running' = FALSE
    /\ UNCHANGED <<requests, request_queue, active_requests,
                   completed_requests, stats, avg_samples, ai_processor, worker,
                   cancel_pc, cancel_target, acked, cleared, dispatches>>
    /\ UNCHANGED nonQueueVars

\* int(time.time() * 1000) never runs backwards: the clock read by an enqueue
\* is at least the one read by the enqueue before it
LastTime == IF requests = << >> THEN 0 ELSE requests[Len(requests)].request_id[2]

\* position and estimated_wait of add_ai_request: logged and stored on the
\* request, never read again, so the request record does not carry them
position == qsize + Cardinality(DOMAIN active_requests) + 1
estimated_wait == position * 10

add_ai_request(user_id, priority, now) ==
    /\ cancel_pc = "idle"
    /\ Len(requests) < MaxReq
    /\ LET request == [request_id |-> make_request_id(now, user_id),
                       user_id |-> user_id,
                       priority |-> priority,
                       status |-> "queued"]
       IN  /\ requests' = Append(requests, request)
           /\ request_queue' = Append(request_queue, Len(requests) + 1)
           /\ stats' = [stats EXCEPT !.total_queued = @ + 1,
                                     !.current_queue_size = qsize + 1]
    /\ UNCHANGED <<active_requests, completed_requests, avg_samples,
                   ai_processor, running, worker, cancel_pc, cancel_target,
                   acked, cleared, dispatches>>
    /\ UNCHANGED nonQueueVars

\* the scan of the snapshot list(self.request_queue.queue)
CancelMatches(request_id) ==
    {i \in 1..qsize : requests[request_queue[i]].request_id = request_id}

FirstMatch(request_id) ==
    request_queue[CHOOSE i \in CancelMatches(request_id) :
                     \A j \in CancelMatches(request_id) : i <= j]

cancel_request_scan(request_id) ==
    /\ cancel_pc = "idle"
    /\ CancelMatches(request_id) # {}
    /\ cancel_pc' = "get"
    /\ cancel_target' = FirstMatch(request_id)
    /\ UNCHANGED <<requests, request_queue, active_requests,
                   completed_requests, stats, avg_samples, ai_processor, running,
                   worker, acked, cleared, dispatches>>
    /\ UNCHANGED nonQueueVars

\* self.request_queue.get() blocks while the queue is empty
cancel_request_get ==
    /\ cancel_pc = "get"
    /\ qsize > 0
    /\ request_queue' = QueueAfterGet(request_queue)
    /\ stats' = [stats EXCEPT !.current_queue_size = qsize - 1]
    /\ acked' = acked \cup {cancel_target}
    /\ cancel_pc' = "idle"
    /\ cancel_target' = 0
    /\ UNCHANGED <<requests, active_requests, completed_requests,
                   avg_samples, ai_processor, running, worker, cleared,
                   dispatches>>
    /\ UNCHANGED nonQueueVars

clear_queue ==
    /\ cancel_pc = "idle"
    /\ qsize > 0
    /\ request_queue' = << >>
    /\ cleared' = cleared \cup {request_queue[i] : i \in 1..qsize}
    /\ stats' = [stats EXCEPT !.current_queue_size = 0]
    /\ UNCHANGED <<requests, active_requests, completed_requests,
                   avg_samples, ai_processor, running, worker, cancel_pc,
                   cancel_target, acked, dispatches>>
    /\ UNCHANGED nonQueueVars

\* ----------------------------------------------------------- the workers
SetStatus(o, s) == [requests EXCEPT ![o].status = s]

\* request = self.request_queue.get(timeout=1.0)
WorkerGet(w) ==
    /\ worker[w].pc = "get"
    /\ qsize > 0
    /\ worker' = [worker EXCEPT ![w].pc = "taken", ![w].request = Head(request_queue)]
    /\ request_queue' = QueueAfterGet(request_queue)
    /\ dispatches' = [dispatches EXCEPT ![Head(request_queue)] = @ + 1]
    /\ UNCHANGED <<requests, active_requests, completed_requests, stats,
                   avg_samples, ai_processor, running, cancel_pc, cancel_target,
                   acked, cleared>>
    /\ UNCHANGED nonQueueVars

\* except queue.Empty: continue; while self.running: is false
WorkerExit(w) ==
    /\ worker[w].pc = "get"
    /\ qsize = 0
    /\ ~running
    /\ worker' = [worker EXCEPT ![w].pc = "exited"]
    /\ UNCHANGED <<requests, request_queue, active_requests,
                   completed_requests, stats, avg_samples, ai_processor, running,
                   cancel_pc, cancel_target, acked, cleared, dispatches>>
    /\ UNCHANGED nonQueueVars

\* request.status = "processing"; self.active_requests[request_id] = request
WorkerMarkActive(w) ==
    /\ worker[w].pc = "taken"
    /\ LET o == worker[w].request
       IN  /\ requests' = SetStatus(o, "processing")
           /\ active_requests' = DictSet(active_requests, requests[o].request_id, o)
    /\ worker' = [worker EXCEPT ![w].pc = "call"]
    /\ UNCHANGED <<request_queue, completed_requests, stats, avg_samples,
                   ai_processor, running, cancel_pc, cancel_target, acked,
                   cleared, dispatches>>
    /\ UNCHANGED nonQueueVars

\* response = self.ai_processor(request) returns
WorkerCallReturns(w) ==
    /\ worker[w].pc = "call"
    /\ ai_processor
    /\ LET o == worker[w].request
       IN  /\ requests' = SetStatus(o, "completed")
           /\ completed_requests' =
                  DictSet(completed_requests, requests[o].request_id, o)
    /\ worker' = [worker EXCEPT ![w].pc = "stat_read"]
    /\ UNCHANGED <<request_queue, active_requests, stats, avg_samples,
                   ai_processor, running, cancel_pc, cancel_target, acked,
                   cleared, dispatches>>
    /\ UNCHANGED nonQueueVars

\* response = self.ai_processor(request) raises
WorkerCallRaises(w) ==
    /\ worker[w].pc = "call"
    /\ ai_processor
    /\ worker' = [worker EXCEPT ![w].pc = "except"]
    /\ UNCHANGED <<requests, request_queue, active_requests,
                   completed_requests, stats, avg_samples, ai_processor, running,
                   cancel_pc, cancel_target, acked, cleared, dispatches>>
    /\ UNCHANGED nonQueueVars

\* else: request.status = "failed"
WorkerNoProcessor(w) ==
    /\ worker[w].pc = "call"
    /\ ~ai_processor
    /\ requests' = SetStatus(worker[w].request, "failed")
    /\ worker' = [worker EXCEPT ![w].pc = "stat_read"]
    /\ UNCHANGED <<request_queue, active_requests, completed_requests,
                   stats, avg_samples, ai_processor, running, cancel_pc,
                   cancel_target, acked, cleared, dispatches>>
    /\ UNCHANGED nonQueueVars

\* self.stats["total_processed"] += 1, the load
WorkerStatRead(w) ==
    /\ worker[w].pc = "stat_read"
    /\ worker' = [worker EXCEPT ![w].pc = "stat_write",
                                ![w].tmp = stats.total_processed]
    /\ UNCHANGED <<requests, request_queue, active_requests,
                   completed_requests, stats, avg_samples, ai_processor, running,
                   cancel_pc, cancel_target, acked, cleared, dispatches>>
    /\ UNCHANGED nonQueueVars

\* self.stats["total_processed"] += 1, the store; then the mean is updated
WorkerStatWrite(w) ==
    /\ worker[w].pc = "stat_write"
    /\ stats' = [stats EXCEPT !.total_processed = worker[w].tmp + 1]
    /\ avg_samples' = avg_samples + 1
    /\ worker' = [worker EXCEPT ![w].pc = "finally", ![w].tmp = 0]
    /\ UNCHANGED <<requests, request_queue, active_requests,
                   completed_requests, ai_processor, running, cancel_pc,
                   cancel_target, acked, cleared, dispatches>>
    /\ UNCHANGED nonQueueVars

\* except Exception: request.status = "failed"; total_failed += 1, the load
WorkerExcept(w) ==
    /\ worker[w].pc = "except"
    /\ requests' = SetStatus(worker[w].request, "failed")
    /\ worker' = [worker EXCEPT ![w].pc = "fail_write",
                                ![w].tmp = stats.total_failed]
    /\ UNCHANGED <<request_queue, active_requests, completed_requests,
                   stats, avg_samples, ai_processor, running, cancel_pc,
                   cancel_target, acked, cleared, dispatches>>
    /\ UNCHANGED nonQueueVars

\* self.stats["total_failed"] += 1, the store
WorkerFailWrite(w) ==
    /\ worker[w].pc = "fail_write"
    /\ stats' = [stats EXCEPT !.total_failed = worker[w].tmp + 1]
    /\ worker' = [worker EXCEPT ![w].pc = "finally", ![w].tmp = 0]
    /\ UNCHANGED <<requests, request_queue, active_requests,
                   completed_requests, avg_samples, ai_processor, running,
                   cancel_pc, cancel_target, acked, cleared, dispatches>>
    /\ UNCHANGED nonQueueVars

\* finally: del self.active_requests[request_id]; current_queue_size = qsize()
WorkerFinally(w) ==
    /\ worker[w].pc = "finally"
    /\ active_requests' = DictDel(active_requests,
                                  requests[worker[w].request].request_id)
    /\ stats' = [stats EXCEPT !.current_queue_size = qsize]
    /\ worker' = [worker EXCEPT ![w].pc = IF running THEN "get" ELSE "exited",
                                ![w].request = 0]
    /\ UNCHANGED <<requests, request_queue, completed_requests,
                   avg_samples, ai_processor, running, cancel_pc, cancel_target,
                   acked, cleared, dispatches>>
    /\ UNCHANGED nonQueueVars

\* get_user_status(user_id)
get_user_status(user_id) ==
    IF \E k \in DOMAIN active_requests :
           requests[active_requests[k]].user_id = user_id
    THEN [status |-> "processing", position |-> 0, estimated_wait |-> 0]
    ELSE LET hits == {i \in 1..qsize : requests[request_queue[i]].user_id = user_id}
         IN  IF hits # {}
             THEN LET i == CHOOSE h \in hits : \A g \in hits : h <= g
                  IN  [status |-> "queued", position |-> i,
                       estimated_wait |-> i * 10]
             ELSE None

Worker(w) ==
    \/ WorkerGet(w)
    \/ WorkerExit(w)
    \/ WorkerMarkActive(w)
    \/ WorkerCallReturns(w)
    \/ WorkerCallRaises(w)
    \/ WorkerNoProcessor(w)
    \/ WorkerStatRead(w)
    \/ WorkerStatWrite(w)
    \/ WorkerExcept(w)
    \/ WorkerFailWrite(w)
    \/ WorkerFinally(w)

\* One caller (MainUser, default priority) against the worker threads.
\* the clock at a submission: the reading of the last request or a later
\* one; ids are compared for equality only, so one later reading stands for all
SubmitTimes == {t \in LastTime..MaxTime : t <= LastTime + 1}

Next ==
    \/ set_ai_processor
    \/ stop_ai_workers
    \/ \E t \in SubmitTimes : add_ai_request(MainUser, default_priority, t)
    \/ \E t \in 0..MaxTime : cancel_request_scan(make_request_id(t, MainUser))
    \/ cancel_request_get
    \/ clear_queue
    \/ \E w \in Workers : Worker(w)

Spec == Init /\ [][Next]_vars

\* the threads are scheduled: a worker that can take a step takes one, and
\* a get() that can return does; nobody has to submit or cancel
SpecLive ==
    /\ Init /\ [][Next]_vars
    /\ WF_vars(cancel_request_get)
    /\ \A w \in Workers : WF_vars(Worker(w))

\* Several users and priorities enqueue; nothing is cancelled.
NextInputs ==
    \/ set_ai_processor
    \/ stop_ai_workers
    \/ \E u \in Users, p \in Priorities, t \in LastTime..MaxTime :
           add_ai_request(u, p, t)
    \/ \E w \in Workers : Worker(w)

SpecInputs == Init /\ [][NextInputs]_vars

\* -------------------------------------------- starting a second time
\* AIQueueSystem.start_ai_workers: sets running and starts max_concurrent_ai
\* more worker threads; the constructor has called it once already
NumWorkers == Cardinality(DOMAIN worker)

start_ai_workers ==
    /\ cancel_pc = "idle"
    /\ NumWorkers < max_concurrent_ai * (MaxStarts + 1)
    /\ running' = TRUE
    /\ worker' = [w \in 1..(NumWorkers + max_concurrent_ai) |->
                    IF w \in DOMAIN worker THEN worker[w] ELSE IdleWorker]
    /\ UNCHANGED <<requests, request_queue, active_requests,
                   completed_requests, stats, avg_samples, ai_processor,
                   cancel_pc, cancel_target, acked, cleared, dispatches>>
    /\ UNCHANGED nonQueueVars

\* Heart._start_background: a beat-loop thread is started only when the last
\* one is not alive
HeartThreadsAfterStart(h) == IF h.threads > 0 THEN h.threads ELSE 1

\* Heart.start(cycles=None): returns False at once when the heart is alive
HeartStart ==
    /\ IF heart.alive
         THEN heart' = heart
         ELSE heart' = [heart EXCEPT !.alive = TRUE,
                                     !.state = "active",
                                     !.threads = HeartThreadsAfterStart(heart)]
    /\ UNCHANGED nonHeartVars

\* Heart.stop: clears alive and joins the thread for two seconds; the thread
\* has ended by then or is left running
HeartStop ==
    /\ heart.alive
    /\ \E ended \in BOOLEAN :
          heart' = [heart EXCEPT !.alive = FALSE,
                                 !.state = "idle",
                                 !.threads = IF ended THEN 0 ELSE @]
    /\ UNCHANGED nonHeartVars

\* one turn of Heart._beat_loop while alive: pulse() counts the beat
HeartPulse ==
    /\ heart.threads > 0
    /\ heart.alive
    /\ heart.beat_count < MaxBeats
    /\ heart' = [heart EXCEPT !.beat_count = @ + 1]
    /\ UNCHANGED nonHeartVars

\* Heart._beat_loop leaves its while loop once alive is False
HeartLoopEnds ==
    /\ heart.threads > 0
    /\ ~heart.alive
    /\ heart' = [heart EXCEPT !.threads = @ - 1]
    /\ UNCHANGED nonHeartVars

\* the queue without a processor, started again, beside the heart
NextStart ==
    \/ start_ai_workers
    \/ stop_ai_workers
    \/ \E t \in LastTime..MaxTime : add_ai_request(MainUser, default_priority, t)
    \/ \E w \in DOMAIN worker :
          \/ WorkerGet(w)
          \/ WorkerExit(w)
          \/ WorkerMarkActive(w)
          \/ WorkerNoProcessor(w)
          \/ WorkerStatRead(w)
          \/ WorkerStatWrite(w)
          \/ WorkerFinally(w)
    \/ HeartStart
    \/ HeartStop
    \/ HeartPulse
    \/ HeartLoopEnds

SpecStart == Init /\ [][NextStart]_vars

\* ------------------------------------------------- the memory system
\* the three parts of the MemorySystem a call reads and writes
MemNow ==
    [default_template |-> default_template,
     user_memories |-> user_memories,
     disk |-> disk]

Raised(ms) == [ms |-> ms, raised |-> TRUE]
Returned(ms) == [ms |-> ms, raised |-> FALSE]

\* profile["memory_context_index"] and profile["system_metadata"]: the
\* template's dicts when the profile is a shallow copy of the template
IndexOf(ms, p) ==
    IF p.index.kind = "shared" THEN ms.default_template.index ELSE p.index
MetaOf(ms, p) ==
    IF p.meta.kind = "shared" THEN ms.default_template.meta ELSE p.meta

get_user_profile(ms, u) ==
    IF u \in DOMAIN ms.user_memories
      THEN ms.user_memories[u].profile ELSE NoProfile

\* if user_id not in self.user_memories: self.user_memories[user_id] = {}
EnsureUser(ms, u) ==
    IF u \in DOMAIN ms.user_memories THEN ms
    ELSE [ms EXCEPT !.user_memories = DictSet(@, u, NewUser)]

\* os.makedirs(..., exist_ok=True)
makedirs(ms, u) ==
    IF u \in DOMAIN ms.disk THEN ms
    ELSE [ms EXCEPT !.disk = DictSet(@, u, EmptyDir)]

\* json.dump(profile, f): the text holds the nested dicts by value
json_dump(ms, p) ==
    [kind |-> "complete",
     index |-> IndexOf(ms, p),
     meta |-> [MetaOf(ms, p) EXCEPT !.kind = "own"]]

\* json.load of profile.json: every nested dict is the profile's own
json_load(f) ==
    [kind |-> "profile", index |-> f.index, meta |-> f.meta]

\* create_user_profile: self.default_template.copy() is a shallow copy
create_user_profile(ms, u) ==
    [kind |-> "profile",
     index |-> IF ms.default_template.kind = "with_index"
                 THEN SharedIndex ELSE NoIndex,
     meta |-> SharedMeta]

\* profile["basic_information"] raises KeyError on the empty template
CreateRaises(ms) == ms.default_template.kind = "missing"

\* save_user_profile: makedirs, then open(profile_file, "w") and json.dump
\* into the file itself, then the in-memory profile
WriteInPlace(old, new) == PartialFile

save_user_profile(ms, u, p, fail) ==
    IF fail = "mkdir"
      THEN Raised(ms)
    ELSE IF fail = "write"
      THEN Raised([makedirs(ms, u) EXCEPT !.disk[u].profile =
                       WriteInPlace(@, json_dump(ms, p))])
    ELSE Returned([EnsureUser(makedirs(ms, u), u) EXCEPT
             !.disk[u].profile = json_dump(ms, p),
             !.user_memories[u].profile = p])

\* memory_id: the second of the timestamp and the hash of the content
make_memory_id(t, content) == <<t, content>>

\* lines 342-355 of add_user_memory: the context line is appended to the
\* profile's index, total_memories is set to the length of the list and
\* interaction_count is increased by one
CountAfterAppend(lines) == Len(lines)
LenAfterAppend(lines) == Len(lines) + 1

UpdateProfile(ms, u, line) ==
    LET p == get_user_profile(ms, u)
        idx == IndexOf(ms, p)
        new_index == [kind |-> "own",
                      context_lines |-> Append(idx.context_lines, line),
                      total_memories |-> LenAfterAppend(idx.context_lines)]
        meta == MetaOf(ms, p)
        new_meta == [meta EXCEPT !.interaction_count = @ + 1]
        ms1 == IF p.index.kind = "shared"
                 THEN [ms EXCEPT !.default_template.index = new_index]
                 ELSE [ms EXCEPT !.user_memories[u].profile.index = new_index]
    IN  IF p.meta.kind = "shared"
          THEN [ms1 EXCEPT !.default_template.meta = new_meta]
          ELSE [ms1 EXCEPT !.user_memories[u].profile.meta = new_meta]

\* add_user_memory from the memory file on: makedirs, the memory file, the
\* in-memory entry, the profile update, the save of the profile
StoreMemory(ms, u, memory_id, fail) ==
    IF fail = "makedirs"
      THEN Raised(ms)
    ELSE IF fail = "write_file"
      THEN Raised([makedirs(ms, u) EXCEPT
                      !.disk[u].files = DictSet(@, memory_id, FALSE)])
    ELSE LET ms1 == [makedirs(ms, u) EXCEPT
                       !.disk[u].files = DictSet(@, memory_id, TRUE),
                       !.user_memories[u].memories = @ \cup {memory_id}]
             ms2 == UpdateProfile(ms1, u, memory_id)
         IN  save_user_profile(ms2, u, get_user_profile(ms2, u),
                               IF fail = "save_mkdir" THEN "mkdir"
                               ELSE IF fail = "save_write" THEN "write"
                               ELSE "none")

add_user_memory(ms, u, content, t, fail) ==
    LET ms1 == EnsureUser(ms, u)
        memory_id == make_memory_id(t, content)
    IN  IF get_user_profile(ms1, u).kind = "none"
          THEN IF CreateRaises(ms1)
                 THEN Raised(ms1)
                 ELSE LET r == save_user_profile(ms1, u,
                                   create_user_profile(ms1, u),
                                   IF fail = "create_mkdir" THEN "mkdir"
                                   ELSE IF fail = "create_write" THEN "write"
                                   ELSE "none")
                      IN  IF r.raised THEN r
                          ELSE StoreMemory(r.ms, u, memory_id, fail)
          ELSE StoreMemory(ms1, u, memory_id, fail)

\* the steps of add_user_memory that can fail for this user now
FailPoints(ms, u) ==
    IF get_user_profile(ms, u).kind = "none"
      THEN IF CreateRaises(ms)
             THEN {"none"}
             ELSE {"none", "create_mkdir", "create_write", "makedirs",
                   "write_file", "save_mkdir", "save_write"}
      ELSE {"none", "makedirs", "write_file", "save_mkdir", "save_write"}

\* the context lines an append for this user would extend
TargetLines(ms, u) ==
    LET p == get_user_profile(ms, u)
    IN  IF p.kind = "none"
          THEN IndexOf(ms, create_user_profile(ms, u)).context_lines
          ELSE IndexOf(ms, p).context_lines

\* the interaction_count an append for this user would increase
TargetCount(ms, u) ==
    LET p == get_user_profile(ms, u)
    IN  IF p.kind = "none"
          THEN MetaOf(ms, create_user_profile(ms, u)).interaction_count
          ELSE MetaOf(ms, p).interaction_count

MemoryIds ==
    UNION ({user_memories[u].memories : u \in DOMAIN user_memories}
           \cup {DOMAIN disk[u].files : u \in DOMAIN disk})
MemLastTime ==
    IF MemoryIds = {} THEN 0
    ELSE CHOOSE t \in 0..MaxTime :
            /\ \E id \in MemoryIds : id[1] = t
            /\ \A id \in MemoryIds : id[1] <= t

SetMemory(r, op, u) ==
    /\ default_template' = r.ms.default_template
    /\ user_memories' = r.ms.user_memories
    /\ disk' = r.ms.disk
    /\ last_call' = [op |-> op, user |-> u, raised |-> r.raised]
    /\ UNCHANGED kitchen_memories

MemAdd(u, content, t, fail) ==
    /\ Len(TargetLines(MemNow, u)) < MaxLines
    /\ TargetCount(MemNow, u) < MaxCount
    /\ fail \in FailPoints(MemNow, u)
    /\ SetMemory(add_user_memory(MemNow, u, content, t, fail), "add", u)
    /\ UNCHANGED nonMemVars

\* create_user_profile and save_user_profile called by hand, as the
\* structure test does for a new user
MemCreateAndSave(u, fail) ==
    /\ ~CreateRaises(MemNow)
    /\ SetMemory(save_user_profile(MemNow, u, create_user_profile(MemNow, u),
                                   fail), "save", u)
    /\ UNCHANGED nonMemVars

\* _load_memory_files: every user directory; a file that does not parse is
\* reported and skipped
load_memory_files(files) ==
    [u \in DOMAIN files |->
        [profile |-> IF files[u].profile.kind = "complete"
                       THEN json_load(files[u].profile)
                       ELSE NoProfile,
         memories |-> {id \in DOMAIN files[u].files : files[u].files[id]}]]

\* MemorySystem() is constructed anew over the directory, as
\* initialize_systems and the test scripts do: the template and the user
\* directories are loaded.  The memory_system object of the modules package
\* is another object, loaded once when the package is imported
MemRestart ==
    /\ default_template' = LoadedTemplate(default_template.kind)
    /\ user_memories' = load_memory_files(disk)
    /\ UNCHANGED kitchen_memories
    /\ last_call' = [op |-> "load", user |-> MainUser, raised |-> FALSE]
    /\ UNCHANGED disk
    /\ UNCHANGED nonMemVars

MemInit ==
    /\ QueueInit
    /\ HeartInit
    /\ DispatchInit
    /\ \E kind \in TemplateKinds : MemoryInit(kind)

\* appends, saves and restarts within one second of the clock
NextMemory ==
    \/ \E u \in Users, t \in {MemLastTime},
          fail \in {"none", "create_mkdir", "create_write", "makedirs",
                    "write_file", "save_mkdir", "save_write"} :
          MemAdd(u, MainContent, t, fail)
    \/ \E u \in Users, fail \in {"none", "mkdir", "write"} :
          MemCreateAndSave(u, fail)
    \/ MemRestart

SpecMemory == MemInit /\ [][NextMemory]_vars

\* ------------------------------------------------- searching memories
\* texts are sequences of characters; str.lower() folds the one capital
Lower(c) == IF c = "A" THEN "a" ELSE c
lower(text) == [i \in 1..Len(text) |-> Lower(text[i])]

\* str.count: the occurrences of sub in text that do not overlap, found
\* from the left
RECURSIVE count(_, _)
count(text, sub) ==
    IF Len(sub) = 0 THEN Len(text) + 1
    ELSE IF Len(text) < Len(sub) THEN 0
    ELSE IF SubSeq(text, 1, Len(sub)) = sub
      THEN 1 + count(SubSeq(text, Len(sub) + 1, Len(text)), sub)
    ELSE count(Tail(text), sub)

\* the context line of a memory: id|type|timestamp|content
context_line(memory_id) ==
    <<"m", "|", "f", "|", "t", "|">> \o memory_id[2]
parts(text) == 1 + count(text, <<"|">>)

\* list.sort(key=relevance_score, reverse=True): descending and stable, an
\* entry goes behind every entry whose score is not smaller
RECURSIVE sort_by_relevance(_)
sort_by_relevance(results) ==
    IF results = << >> THEN << >>
    ELSE LET n == Len(results)
             x == results[n]
             done == sort_by_relevance(SubSeq(results, 1, n - 1))
             k == Cardinality({i \in 1..Len(done) :
                                 done[i].relevance_score >= x.relevance_score})
         IN  SubSeq(done, 1, k) \o <<x>> \o SubSeq(done, k + 1, Len(done))

\* the entries of the matching lines, in the order of context_lines; pos is
\* the place of the line in context_lines
RECURSIVE matching(_, _, _)
matching(lines, query_lower, done) ==
    IF done = Len(lines) THEN << >>
    ELSE LET text == lower(context_line(lines[done + 1]))
             rest == matching(lines, query_lower, done + 1)
         IN  IF count(text, query_lower) > 0 /\ parts(text) >= 4
               THEN <<[memory_id |-> lines[done + 1],
                       pos |-> done + 1,
                       relevance_score |-> count(text, query_lower)]>> \o rest
               ELSE rest

search_user_memories(ms, u, query, limit) ==
    LET p == get_user_profile(ms, u)
    IN  IF p.kind = "none" \/ IndexOf(ms, p).kind = "absent"
          THEN << >>
          ELSE LET results == sort_by_relevance(
                                 matching(IndexOf(ms, p).context_lines,
                                          lower(query), 0))
               IN  SubSeq(results, 1,
                          IF limit < Len(results) THEN limit ELSE Len(results))

SearchContents == {<<"a">>, <<"a", "a">>, <<"b", "A">>}
Queries == {<<"a">>, <<"A">>, <<"b">>, <<"a", "a">>, <<"m">>}
Limits == 0..MaxLines

MemSearch(u, query, limit) ==
    /\ last_call' = [op |-> "search", user |-> u, raised |-> FALSE,
                     query |-> query, limit |-> limit,
                     results |-> search_user_memories(MemNow, u, query, limit)]
    /\ UNCHANGED <<default_template, user_memories, disk, kitchen_memories>>
    /\ UNCHANGED nonMemVars

\* appends of several contents at non-decreasing seconds, and searches
NextSearch ==
    \/ \E u \in Users, content \in SearchContents, t \in MemLastTime..MaxTime :
          MemAdd(u, content, t, "none")
    \/ \E u \in Users, query \in Queries, limit \in Limits :
          MemSearch(u, query, limit)

SpecSearch == MemInit /\ [][NextSearch]_vars

\* ------------------------------------------------ the personality engine
AxisWeights(d, l, c, s, a, r, p, v, x) ==
    [Desire |-> d, Logic |-> l, Compassion |-> c, Stability |-> s,
     Autonomy |-> a, Recursion |-> r, Protection |-> p, Vulnerability |-> v,
     Paradox |-> x]

\* _initialize_fragments, in the order of the dict; activation_threshold in
\* tenths
fragment_names ==
    <<"velastra", "obelisk", "seraphis", "blackwall", "nyx", "echoe", "lyra">>
fragments ==
    [velastra |-> [activation_threshold |-> 3,
                   emotional_weights |->
                      AxisWeights(95, 0, 10, 5, 10, 5, 5, 20, 0)],
     obelisk |-> [activation_threshold |-> 4,
                  emotional_weights |->
                     AxisWeights(5, 90, 5, 30, 10, 10, 30, 5, 10)],
     seraphis |-> [activation_threshold |-> 3,
                   emotional_weights |->
                      AxisWeights(10, 5, 90, 20, 10, 10, 20, 80, 0)],
     blackwall |-> [activation_threshold |-> 4,
                    emotional_weights |->
                       AxisWeights(5, 10, 10, 90, 10, 10, 80, 10, 5)],
     nyx |-> [activation_threshold |-> 3,
              emotional_weights |->
                 AxisWeights(20, 20, 20, 10, 80, 30, 10, 20, 90)],
     echoe |-> [activation_threshold |-> 3,
                emotional_weights |->
                   AxisWeights(10, 10, 20, 10, 10, 90, 10, 30, 80)],
     lyra |-> [activation_threshold |-> 2,
               emotional_weights |->
                  AxisWeights(10, 15, 10, 15, 10, 30, 15, 10, 0)]]

\* _initialize_lexicon: some of its words
lexicon ==
    [love |-> [Desire |-> 60, Compassion |-> 40],
     protect |-> [Protection |-> 60, Stability |-> 20, Compassion |-> 15,
                  Logic |-> 5],
     calm |-> [Stability |-> 60, Compassion |-> 20, Logic |-> 10,
               Autonomy |-> 10],
     recursive |-> [Recursion |-> 80, Logic |-> 10, Paradox |-> 10],
     paradox |-> [Paradox |-> 80, Logic |-> 10, Recursion |-> 10],
     virus |-> [Autonomy |-> 60, Paradox |-> 40],
     the |-> [Neutral |-> 100]]

max_active_fragments == 3

\* message.lower() and the split into words, on a list of words
word_lower(w) == IF w = "LOVE" THEN "love" ELSE w
tokenize_message(message) ==
    [i \in 1..Len(message) |-> word_lower(message[i])]

\* the sums of the lexicon weights of the words, axis by axis ("Neutral"
\* is no axis)
RECURSIVE accumulate(_)
accumulate(words) ==
    IF words = << >> THEN [i \in 1..Len(EMOTIONAL_AXES) |-> 0]
    ELSE LET acc == accumulate(SubSeq(words, 1, Len(words) - 1))
             w == words[Len(words)]
         IN  IF w \in DOMAIN lexicon
               THEN [i \in 1..Len(EMOTIONAL_AXES) |->
                       acc[i] + IF EMOTIONAL_AXES[i] \in DOMAIN lexicon[w]
                                  THEN lexicon[w][EMOTIONAL_AXES[i]] ELSE 0]
               ELSE acc

RECURSIVE SumTo(_, _)
SumTo(f, n) == IF n = 0 THEN 0 ELSE f[n] + SumTo(f, n - 1)
RECURSIVE gcd(_, _)
gcd(a, b) == IF b = 0 THEN a ELSE gcd(b, a % b)
RECURSIVE GcdTo(_, _)
GcdTo(f, n) == IF n = 0 THEN 0 ELSE gcd(f[n], GcdTo(f, n - 1))

\* _normalize_weights: every weight divided by the total when that is
\* positive; as fractions in lowest terms over one denominator
normalize_weights(acc) ==
    LET total_weight == SumTo(acc, Len(acc))
        g == GcdTo(acc, Len(acc))
    IN  IF total_weight > 0
          THEN [weights |-> [i \in 1..Len(acc) |-> acc[i] \div g],
                total |-> total_weight \div g]
          ELSE [weights |-> acc, total |-> 0]

\* the score of a fragment times the denominator of the weights
score(name, nw) ==
    SumTo([i \in 1..Len(EMOTIONAL_AXES) |->
             nw.weights[i] * fragments[name].emotional_weights[EMOTIONAL_AXES[i]]],
          Len(EMOTIONAL_AXES))

\* score >= fragment.activation_threshold
above_threshold(name, nw) ==
    IF nw.total = 0
      THEN 0 >= fragments[name].activation_threshold
      ELSE 10 * score(name, nw) >= fragments[name].activation_threshold * nw.total

\* sorted(fragment_scores.items(), key=score, reverse=True) over the first n
\* fragments: descending and stable
RECURSIVE sorted_fragments(_, _)
sorted_fragments(n, nw) ==
    IF n = 0 THEN << >>
    ELSE LET done == sorted_fragments(n - 1, nw)
             x == fragment_names[n]
             k == Cardinality({i \in 1..Len(done) :
                                 score(done[i], nw) >= score(x, nw)})
         IN  IF x = "lyra" THEN done
             ELSE SubSeq(done, 1, k) \o <<x>> \o SubSeq(done, k + 1, Len(done))

\* _calculate_fragment_activation: the fragments at or above their
\* threshold by falling score, then lyra, cut to max_active_fragments
calculate_fragment_activation(nw) ==
    LET Active(name) == above_threshold(name, nw)
        active_fragments ==
            SelectSeq(sorted_fragments(Len(fragment_names), nw), Active)
               \o <<"lyra">>
    IN  SubSeq(active_fragments, 1,
               IF Len(active_fragments) < max_active_fragments
                 THEN Len(active_fragments) ELSE max_active_fragments)

process_input(user_id, message) ==
    LET nw == normalize_weights(accumulate(tokenize_message(message)))
    IN  [user_id |-> user_id, accumulated_weights |-> nw.weights,
         total |-> nw.total,
         dominant_fragments |-> calculate_fragment_activation(nw)]

MaxWords == 3
Vocabulary ==
    {"love", "LOVE", "protect", "calm", "recursive", "paradox", "virus",
     "the", "hello"}
Messages == UNION {[1..n -> Vocabulary] : n \in 0..MaxWords}
MainText == <<"hello">>

ProcessInput(user_id, message) ==
    /\ current_state' = process_input(user_id, message)
    /\ UNCHANGED <<queueVars, heart, memVars, dispatchVars>>

NextEngine == \E u \in Users, message \in Messages : ProcessInput(u, message)

SpecEngine == Init /\ [][NextEngine]_vars

\* ------------------------------------------------------ the synthesis
\* texts are sequences of characters and of fixed phrases
IsSpace(c) == c \in {" ", "\n"}

\* the longest run of whitespace from place i on ends before this place
RECURSIVE SpaceEnd(_, _)
SpaceEnd(text, i) ==
    IF i <= Len(text) /\ IsSpace(text[i]) THEN SpaceEnd(text, i + 1) ELSE i

\* re.sub(r"\n\s*\n", "\n\n", text): from the left, a newline, the longest
\* whitespace that still ends in a newline
RECURSIVE collapse_blank_lines(_)
collapse_blank_lines(text) ==
    IF text = << >> THEN << >>
    ELSE LET ends == {j \in 2..(SpaceEnd(text, 2) - 1) : text[j] = "\n"}
             last == CHOOSE j \in ends : \A k \in ends : k <= j
         IN  IF text[1] = "\n" /\ ends # {}
               THEN <<"\n", "\n">>
                       \o collapse_blank_lines(SubSeq(text, last + 1, Len(text)))
               ELSE <<text[1]>> \o collapse_blank_lines(Tail(text))

\* str.strip()
RECURSIVE strip(_)
strip(text) ==
    IF text = << >> THEN << >>
    ELSE IF IsSpace(text[1]) THEN strip(Tail(text))
    ELSE IF IsSpace(text[Len(text)]) THEN strip(SubSeq(text, 1, Len(text) - 1))
    ELSE text

clean_response(text) == strip(collapse_blank_lines(text))

\* "returning customer" in context_summary.lower()
summary_lower(summary) ==
    IF summary = "A Returning Customer" THEN "a returning customer" ELSE summary
is_returning(summary) == summary_lower(summary) = "a returning customer"

\* max(emotion_profile.items(), key=value)[0]: the first entry, in the
\* order of the dict, of the highest value
primary_emotion(emotion_profile) ==
    LET best == CHOOSE i \in 1..Len(emotion_profile) :
                   /\ \A k \in 1..Len(emotion_profile) :
                         emotion_profile[k][2] <= emotion_profile[i][2]
                   /\ \A k \in 1..(i - 1) :
                         emotion_profile[k][2] < emotion_profile[i][2]
    IN  emotion_profile[best][1]

no_memories == "No relevant memories found."

synthesize_collapsed_response(particle_state, wave_state, embedding_state) ==
    LET cleaned == clean_response(particle_state)
        welcomed == IF wave_state.context_summary # ""
                         /\ is_returning(wave_state.context_summary)
                      THEN <<"Welcome back! ">> \o cleaned ELSE cleaned
        emotion == primary_emotion(wave_state.emotion_profile)
        enhanced == IF emotion # "neutral"
                      THEN welcomed \o <<" I can sense your ", emotion,
                                         " energy and I'm here with you.">>
                      ELSE welcomed
        remembered == IF wave_state.relevant_memories # << >>
                        THEN <<" ", "Based on our previous interactions, ">>
                                \o enhanced
                        ELSE enhanced
    IN  IF embedding_state.memory_context # ""
             /\ embedding_state.memory_context # no_memories
          THEN remembered \o <<" Drawing from our shared memories: ",
                               embedding_state.memory_context>>
          ELSE remembered

MaxText == 4
Characters == {"h", " ", "\n"}
ParticleTexts == UNION {[1..n -> Characters] : n \in 0..MaxText}
WaveStates ==
    [context_summary : {"User u1 sent a message.", "A Returning Customer"},
     emotion_profile : {<< <<"neutral", 2>> >>,
                        << <<"joy", 2>>, <<"neutral", 1>> >>,
                        << <<"neutral", 1>>, <<"joy", 1>> >>},
     relevant_memories : {<< >>, <<"m1">>}]
EmbeddingStates ==
    [memory_context : {no_memories, "Relevant memories:\n1. m1 (relevance: 0.82)",
                       "Memory search failed"}]

\* collapse_superposition on the three observed states: the response is
\* synthesised and the collapsed response is stored in the history
Collapse(particle_state, wave_state, embedding_state) ==
    /\ collapse_history = << >>
    /\ collapse_history' =
          <<[particle_contribution |-> particle_state,
             wave_contribution |-> wave_state,
             embedding_contribution |-> embedding_state,
             response_content |->
                synthesize_collapsed_response(particle_state, wave_state,
                                              embedding_state)]>>
    /\ observer_metrics' =
          [total_collapses |-> observer_metrics.total_collapses + 1,
           successful_collapses |-> observer_metrics.successful_collapses + 1]
    /\ UNCHANGED <<handlers, active_superpositions, current_state>>
    /\ UNCHANGED <<queueVars, heart, memVars>>

NextSynthesis ==
    \E particle_state \in ParticleTexts, wave_state \in WaveStates,
       embedding_state \in EmbeddingStates :
       Collapse(particle_state, wave_state, embedding_state)

SpecSynthesis == Init /\ [][NextSynthesis]_vars

\* ------------------------------------------------------ the dispatch
\* QuantumOrder.__post_init__: quantum_<user_id>_<second of the timestamp>
make_superposition_id(u, t) == <<"quantum", u, t>>
SidOf(h) == make_superposition_id(handlers[h].user, handlers[h].second)

\* what a backend can answer: a proper body, a 200 whose content is null,
\* a JSON array or a JSON object, a status other than 200, no answer within
\* the timeout, no connection, a body that is not JSON, a body without the
\* expected fields
ParticleOutcomes ==
    {"ok", "null_content", "content_list", "content_object", "http_error",
     "timeout", "conn_fail", "bad_json", "missing_field"}
WaveOutcomes ==
    {"ok", "no_response_field", "http_error", "timeout", "conn_fail",
     "bad_json", "bad_field"}
EmbeddingOutcomes ==
    {"ok", "http_error", "timeout", "conn_fail", "bad_json", "missing_field"}

\* observe_particle_position: the ParticleState returned. len() of a null
\* content raises inside the try, an array or an object passes as it is
ParticleKind(outcome) ==
    CASE outcome = "ok" -> "text"
      [] outcome = "content_list" -> "list"
      [] outcome = "content_object" -> "object"
      [] OTHER -> "fallback"

\* lines 246-251 are reached by every 200 whose content could be read
ParticleRecorded(outcome) ==
    outcome \in {"ok", "null_content", "content_list", "content_object"}

\* observe_wave_position: data.get("response", "") accepts a missing field
WaveKind(outcome) ==
    IF outcome \in {"ok", "no_response_field"} THEN "observed" ELSE "fallback"

\* observe_embedding_position and create_fallback_embedding_state
EmbeddingKind(outcome) ==
    IF outcome = "ok" THEN "lm_studio" ELSE "fallback_hash"

\* the awaits of observe_and_collapse follow one another: lines 164, 168, 172
AfterParticleSkipWave == "embedding"
AfterParticle == "wave"

\* create_particle_prompt: the last context lines of the profile that the
\* memory_system of the modules package holds for the user
context_window == 10
recent_memories(u) ==
    IF u \in DOMAIN kitchen_memories /\ kitchen_memories[u].profile.kind = "profile"
      THEN LET lines == kitchen_memories[u].profile.index.context_lines
           IN  SubSeq(lines,
                      IF Len(lines) > context_window
                        THEN Len(lines) - context_window + 1 ELSE 1,
                      Len(lines))
      ELSE << >>

NewHandler(u, t) ==
    [user |-> u, second |-> t, pc |-> "particle", particle |-> "none",
     wave |-> "none", embedding |-> "none", synthesis |-> "none",
     dispatch |-> "running", reply |-> "none", append |-> "none",
     line |-> 0, prompt |-> recent_memories(u), elapsed |-> 0]

\* on_message up to the first await of observe_particle_position:
\* process_input, the superposition record, the particle call issued.
\* A message of the same second follows at once, a later one after time
\* has passed
on_message(u, t) ==
    /\ Len(handlers) < MaxMsgs
    /\ \A h \in 1..Len(handlers) :
          /\ handlers[h].second <= t
          /\ handlers[h].elapsed > 0 => handlers[h].second < t
    /\ handlers' = Append(handlers, NewHandler(u, t))
    /\ active_superpositions' =
          DictSet(active_superpositions, make_superposition_id(u, t),
                  [state |-> "superposed", particle_state |-> "none",
                   wave_state |-> "none"])
    /\ current_state' = process_input(u, MainText)
    /\ UNCHANGED <<collapse_history, observer_metrics>>
    /\ UNCHANGED <<queueVars, heart, memVars>>

\* a call ends on its timeout exactly when the backend has not answered
Took(outcome, dt, timeout) ==
    /\ dt \in 0..timeout
    /\ outcome = "timeout" <=> dt = timeout

\* the particle call ends; observe_and_collapse goes on to the wave call
particle_returns(h, outcome, dt) ==
    /\ handlers[h].pc = "particle"
    /\ Took(outcome, dt, particle_timeout)
    /\ handlers' = [handlers EXCEPT ![h].particle = ParticleKind(outcome),
                                    ![h].pc = AfterParticle,
                                    ![h].elapsed = @ + dt]
    /\ active_superpositions' =
          IF ParticleRecorded(outcome)
            THEN [active_superpositions EXCEPT
                     ![SidOf(h)].particle_state = "set",
                     ![SidOf(h)].state = "collapsing"]
            ELSE active_superpositions
    /\ UNCHANGED <<collapse_history, observer_metrics>>
    /\ UNCHANGED <<nonDispatchVars, memVars>>

\* the wave call ends; observe_embedding_position builds its search query
\* from creative_response[:200], which raises on an object, and its except
\* clause then reads the unassigned search_query
wave_returns(h, outcome, dt) ==
    /\ handlers[h].pc = "wave"
    /\ Took(outcome, dt, wave_timeout)
    /\ handlers' =
          [handlers EXCEPT
              ![h].wave = WaveKind(outcome),
              ![h].elapsed = @ + dt,
              ![h].pc = IF handlers[h].particle = "object"
                          THEN "fallback_send" ELSE "embedding",
              ![h].dispatch = IF handlers[h].particle = "object"
                                THEN "raised" ELSE @]
    /\ active_superpositions' =
          IF WaveKind(outcome) = "observed"
            THEN [active_superpositions EXCEPT ![SidOf(h)].wave_state = "set"]
            ELSE active_superpositions
    /\ UNCHANGED <<collapse_history, observer_metrics>>
    /\ UNCHANGED <<nonDispatchVars, memVars>>

\* the embedding call ends; collapse_superposition, update_observer_metrics
\* and the return to on_message follow without an await.  re.sub in
\* synthesize_collapsed_response raises on a list
embedding_returns(h, outcome, dt) ==
    /\ handlers[h].pc = "embedding"
    /\ Took(outcome, dt, embedding_timeout)
    /\ IF handlers[h].particle = "list"
         THEN /\ handlers' = [handlers EXCEPT
                                 ![h].embedding = EmbeddingKind(outcome),
                                 ![h].elapsed = @ + dt,
                                 ![h].synthesis = "raised",
                                 ![h].dispatch = "raised",
                                 ![h].pc = "fallback_send"]
              /\ UNCHANGED <<active_superpositions, collapse_history,
                             observer_metrics>>
         ELSE /\ handlers' = [handlers EXCEPT
                                 ![h].embedding = EmbeddingKind(outcome),
                                 ![h].elapsed = @ + dt,
                                 ![h].synthesis = "done",
                                 ![h].dispatch = "returned",
                                 ![h].pc = "send"]
              /\ active_superpositions' =
                    [active_superpositions EXCEPT ![SidOf(h)].state = "collapsed"]
              /\ collapse_history' = Append(collapse_history, h)
              /\ observer_metrics' =
                    [total_collapses |-> observer_metrics.total_collapses + 1,
                     successful_collapses |->
                        observer_metrics.successful_collapses + 1]
    /\ UNCHANGED <<nonDispatchVars, memVars>>

\* on_message after a reply went out: add_user_memory inside try/except,
\* a failure is logged as a warning; line is the place the new context line
\* took in context_lines
AppendAfterReply(h, reply, fail, now) ==
    LET r == add_user_memory(MemNow, handlers[h].user, MainContent, now, fail)
    IN  /\ SetMemory(r, "add", handlers[h].user)
        /\ handlers' = [handlers EXCEPT
                           ![h].reply = reply,
                           ![h].append = IF r.raised THEN "failed" ELSE "ok",
                           ![h].line = IF r.raised THEN 0
                                       ELSE Len(TargetLines(r.ms, handlers[h].user)),
                           ![h].pc = "done"]

\* await message.channel.send(ai_response) ends
send_returns(h, sent, fail, now) ==
    /\ handlers[h].pc = "send"
    /\ fail \in FailPoints(MemNow, handlers[h].user)
    /\ IF sent
         THEN AppendAfterReply(h, "ai", fail, now)
         ELSE /\ handlers' = [handlers EXCEPT ![h].pc = "fallback_send"]
              /\ UNCHANGED memVars
    /\ UNCHANGED <<active_superpositions, collapse_history, observer_metrics>>
    /\ UNCHANGED nonDispatchVars

\* the except clause of on_message: await message.channel.send(response)
\* with the simple response ends; when it raises too, on_message ends there
fallback_send_returns(h, sent, fail, now) ==
    /\ handlers[h].pc = "fallback_send"
    /\ fail \in FailPoints(MemNow, handlers[h].user)
    /\ IF sent
         THEN AppendAfterReply(h, "simple", fail, now)
         ELSE /\ handlers' = [handlers EXCEPT ![h].pc = "error"]
              /\ UNCHANGED memVars
    /\ UNCHANGED <<active_superpositions, collapse_history, observer_metrics>>
    /\ UNCHANGED nonDispatchVars

\* the task of on_message is cancelled while it waits: CancelledError is
\* raised at the await, the except Exception clauses let it pass, the
\* async with blocks close the connection
Awaiting == {"particle", "wave", "embedding", "send", "fallback_send"}

cancel(h) ==
    /\ handlers[h].pc \in Awaiting
    /\ handlers' = [handlers EXCEPT ![h].pc = "cancelled"]
    /\ UNCHANGED <<active_superpositions, collapse_history, observer_metrics>>
    /\ UNCHANGED <<nonDispatchVars, memVars>>

Handlers == 1..Len(handlers)

\* a call that ends on its timeout took the timeout, any other no time
Dur(outcome, timeout) == IF outcome = "timeout" THEN timeout ELSE 0

NextDispatch ==
    \/ \E t \in 0..MaxTime : on_message(MainUser, t)
    \/ \E h \in Handlers, o \in ParticleOutcomes :
          particle_returns(h, o, Dur(o, particle_timeout))
    \/ \E h \in Handlers, o \in WaveOutcomes :
          wave_returns(h, o, Dur(o, wave_timeout))
    \/ \E h \in Handlers, o \in EmbeddingOutcomes :
          embedding_returns(h, o, Dur(o, embedding_timeout))
    \/ \E h \in Handlers, sent \in BOOLEAN, fail \in {"none", "save_write"} :
          send_returns(h, sent, fail, MemLastTime)
    \/ \E h \in Handlers, sent \in BOOLEAN, fail \in {"none", "save_write"} :
          fallback_send_returns(h, sent, fail, MemLastTime)
    \/ \E h \in Handlers : cancel(h)

SpecDispatch == Init /\ [][NextDispatch]_vars

\* the bot starts over a directory that holds one memory of an earlier run:
\* the MemorySystem() of the bot and the memory_system of the modules
\* package both load it
EarlierMemory == make_memory_id(0, "b")
EarlierRun ==
    [u \in {MainUser} |->
        [profile |-> [kind |-> "complete",
                      index |-> [kind |-> "own",
                                 context_lines |-> <<EarlierMemory>>,
                                 total_memories |-> 1],
                      meta |-> [kind |-> "own", interaction_count |-> 1]],
         files |-> [id \in {EarlierMemory} |-> TRUE]]]
InitPrompt ==
    /\ QueueInit
    /\ HeartInit
    /\ DispatchInit
    /\ default_template = LoadedTemplate("with_index")
    /\ disk = EarlierRun
    /\ user_memories = load_memory_files(EarlierRun)
    /\ kitchen_memories = load_memory_files(EarlierRun)
    /\ last_call = [op |-> "load", user |-> MainUser, raised |-> FALSE]

SpecPrompt == InitPrompt /\ [][NextDispatch]_vars

\* one message, each call taking no time, a second, all but a second of
\* its timeout, or the whole timeout
Durations(timeout) == {0, 1, timeout - 1, timeout}

NextTimed ==
    \/ handlers = << >> /\ on_message(MainUser, 0)
    \/ \E h \in Handlers, o \in ParticleOutcomes,
          dt \in Durations(particle_timeout) : particle_returns(h, o, dt)
    \/ \E h \in Handlers, o \in WaveOutcomes,
          dt \in Durations(wave_timeout) : wave_returns(h, o, dt)
    \/ \E h \in Handlers, o \in EmbeddingOutcomes,
          dt \in Durations(embedding_timeout) : embedding_returns(h, o, dt)
    \/ \E h \in Handlers, sent \in BOOLEAN, fail \in {"none", "save_write"} :
          send_returns(h, sent, fail, MemLastTime)
    \/ \E h \in Handlers, sent \in BOOLEAN, fail \in {"none", "save_write"} :
          fallback_send_returns(h, sent, fail, MemLastTime)
    \/ \E h \in Handlers : cancel(h)

SpecTimed == Init /\ [][NextTimed]_vars

\* ------------------------------------------------------------ properties
Created == 1..Len(requests)
InQueue(o) == \E i \in 1..qsize : request_queue[i] = o
HeldBy(w) == worker[w].request
Held(o) == \E w \in Workers : HeldBy(w) = o
Terminal(o) == requests[o].status \in {"completed", "failed"}
Processing == {o \in Created : requests[o].status = "processing"}
NumDispatched == Cardinality({o \in Created : dispatches[o] > 0})

\* C1: at most max_concurrent_ai requests are active (status "processing",
\* registered in active_requests) in any reachable state.
C1_ActiveAtMostN ==
    /\ Cardinality(Processing) <= max_concurrent_ai
    /\ Cardinality(DOMAIN active_requests) <= max_concurrent_ai

\* every worker slot is busy while a further request waits in the queue
C1_Witness ==
    /\ Cardinality(Processing) = max_concurrent_ai
    /\ qsize > 0

\* C2: a request in a terminal state has exactly one of: reply recorded
\* (completed), failure surfaced (failed), cancellation acknowledged
\* (cancel_request returned True for it).
C2_ExactlyOneOutcome ==
    \A o \in Created :
        Terminal(o) =>
            Cardinality({k \in {"reply", "failure", "cancel"} :
                \/ k = "reply" /\ requests[o].status = "completed"
                \/ k = "failure" /\ requests[o].status = "failed"
                \/ k = "cancel" /\ o \in acked}) = 1

\* C3: with the queue at its hard cap no step admits a request: the queue
\* does not grow and total_queued stays.
C3_OverloadedAtCap ==
    [][qsize >= HardCap =>
          /\ Len(request_queue') <= qsize
          /\ stats'.total_queued = stats.total_queued]_vars

\* C4: an accepted request that was not itself cancelled is never dropped: it
\* is waiting, held by a worker, or terminal.
C4_NeverDropped ==
    \A o \in Created :
        o \in (acked \cup cleared) \/ InQueue(o) \/ Held(o) \/ Terminal(o)

\* the request the specified policy dispatches from queue q as dispatch n + 1:
\* first of the highest band, every fourth time first of the lowest band
PolicyPick(q, n) ==
    LET prios == {requests[q[i]].priority : i \in 1..Len(q)}
        band == IF (n + 1) % 4 = 0
                THEN CHOOSE p \in prios : \A r \in prios : p <= r
                ELSE CHOOSE p \in prios : \A r \in prios : p >= r
        idx == {i \in 1..Len(q) : requests[q[i]].priority = band}
    IN  q[CHOOSE i \in idx : \A j \in idx : i <= j]

\* C5: every pick-up takes the request the priority-band policy selects.
C5_PriorityOrder ==
    [][\A w \in Workers :
          (worker[w].pc = "get" /\ worker'[w].pc = "taken") =>
              worker'[w].request = PolicyPick(request_queue, NumDispatched)]_vars

\* C6: a cancel_request that returns True for a request still in the queue
\* removes exactly that request and keeps the order of the others.
C6_CancelRemovesTarget ==
    [][(cancel_pc = "get" /\ cancel_pc' = "idle" /\ InQueue(cancel_target)) =>
          request_queue' =
              SelectSeq(request_queue, LAMBDA o : o # cancel_target)]_vars

\* C7: get_user_status says processing for a user with a request held by a
\* worker, queued (with the position) for a user with a waiting request, and
\* none only for a user with neither.
C7_StatusTracksRequest ==
    \A u \in Users :
        LET held == \E w \in Workers :
                        HeldBy(w) # 0 /\ requests[HeldBy(w)].user_id = u
            waiting == {i \in 1..qsize : requests[request_queue[i]].user_id = u}
            st == get_user_status(u)
        IN  /\ held => st.status = "processing"
            /\ (~held /\ waiting # {}) =>
                   /\ st.status = "queued"
                   /\ st.position \in waiting
            /\ st = None => (~held /\ waiting = {})

\* C8: a request is taken from the queue at most once, no two workers hold
\* the same request, and a terminal request is not back in the queue.
C8_AtMostOnce ==
    /\ \A o \in Created : dispatches[o] <= 1
    /\ \A w1, w2 \in Workers :
           (w1 # w2 /\ HeldBy(w1) # 0) => HeldBy(w1) # HeldBy(w2)
    /\ \A o \in Created : Terminal(o) => ~InQueue(o)

\* two workers are inside the processor call at once, after an earlier
\* request already reached a terminal state
C8_Witness ==
    /\ \E w1, w2 \in Workers :
           w1 # w2 /\ worker[w1].pc = "call" /\ worker[w2].pc = "call"
    /\ \E o \in Created : Terminal(o)

\* C9: once no worker holds a request, the number of samples folded into the
\* mean is the number of requests in a terminal state.
C9_SampleEveryCompletion ==
    (\A w \in Workers : HeldBy(w) = 0) =>
        avg_samples = Cardinality({o \in Created : Terminal(o)})

\* C10: after stop_ai_workers no submit is admitted.
C10_SubmitRejectedAfterStop ==
    [][~running =>
          /\ Len(request_queue') <= qsize
          /\ stats'.total_queued = stats.total_queued]_vars
\* C11: starting a component that is already started changes nothing: a
\* call of start on the running queue leaves its number of worker threads
\* as it was, and a call of start on the live heart leaves its number of
\* beat-loop threads as it was
C11_SecondStartNoOp ==
    [][/\ running => Cardinality(DOMAIN worker') = Cardinality(DOMAIN worker)
       /\ heart.alive => heart'.threads <= heart.threads]_vars

ParticleInFlight(h) == handlers[h].pc = "particle"
WaveInFlight(h) == handlers[h].pc = "wave"
EmbeddingInFlight(h) == handlers[h].pc = "embedding"

\* C12: within one dispatch the wave call is issued while the particle call
\* is still in flight: the step that issues the wave call leaves the
\* particle call of that dispatch uncompleted
C12_WaveIssuedBesideParticle ==
    [][\A h \in Handlers :
          (~WaveInFlight(h) /\ WaveInFlight(h)') =>
              handlers'[h].particle = "none"]_vars

\* C13: the embedding call of a dispatch is issued only after its particle
\* call and its wave call have completed, and its synthesis starts only
\* after the embedding step has completed
C13_EmbeddingAfterBoth ==
    \A h \in Handlers :
       /\ (EmbeddingInFlight(h) \/ handlers[h].embedding # "none") =>
             (handlers[h].particle # "none" /\ handlers[h].wave # "none")
       /\ handlers[h].synthesis # "none" => handlers[h].embedding # "none"

\* a dispatch has its embedding call in flight after a particle fallback
C13_Witness ==
    \E h \in Handlers :
       /\ EmbeddingInFlight(h)
       /\ handlers[h].particle = "fallback"
       /\ handlers[h].wave = "observed"

\* C14: a failure of a single sub-call never fails the dispatch:
\* observe_and_collapse does not raise, and a particle body that is not the
\* expected text is replaced by the canned text
C14_SubCallFailureRecovered ==
    \A h \in Handlers :
       /\ handlers[h].dispatch # "raised"
       /\ handlers[h].particle \in {"none", "text", "fallback"}

Min(a, b) == IF a <= b THEN a ELSE b
OwnTimeout(h) ==
    CASE ParticleInFlight(h) -> particle_timeout
      [] WaveInFlight(h) -> wave_timeout
      [] EmbeddingInFlight(h) -> embedding_timeout

C16_CancelledRequestIsCancelled ==
    \A h \in Handlers :
       handlers[h].pc = "cancelled" =>
          /\ active_superpositions[SidOf(h)].state = "cancelled"
          /\ handlers[h].reply = "none"
          /\ handlers[h].append = "none"

\* the outcome on_message holds after the dispatch: the fallback marks of
\* the three contributions of the CollapsedResponse
Degraded(h) ==
    \/ handlers[h].particle = "fallback"
    \/ handlers[h].wave = "fallback"
    \/ handlers[h].embedding = "fallback_hash"

\* C17: when the memory append after a dispatch fails, the reply has been
\* delivered all the same and the dispatch outcome is flagged as degraded
C17_FailedAppendFlagged ==
    \A h \in Handlers :
       handlers[h].append = "failed" =>
          /\ handlers[h].reply # "none"
          /\ Degraded(h)

\* the profile an append for this user works on, as held in memory
LinesOf(u) == Len(TargetLines(MemNow, u))
TotalOf(u) ==
    LET p == get_user_profile(MemNow, u)
    IN  IF p.kind = "none"
          THEN IndexOf(MemNow, create_user_profile(MemNow, u)).total_memories
          ELSE IndexOf(MemNow, p).total_memories
CountOf(u) == TargetCount(MemNow, u)

ProfilesConsistent ==
    \A u \in Users :
       /\ get_user_profile(MemNow, u).kind = "profile" =>
             IndexOf(MemNow, get_user_profile(MemNow, u)).total_memories
                = Len(IndexOf(MemNow, get_user_profile(MemNow, u)).context_lines)
       /\ (u \in DOMAIN disk /\ disk[u].profile.kind = "complete") =>
             disk[u].profile.index.total_memories
                = Len(disk[u].profile.index.context_lines)

AppendAddsOne ==
    \A u \in Users :
       (last_call'.op = "add" /\ last_call'.user = u /\ ~last_call'.raised) =>
           /\ LinesOf(u)' = LinesOf(u) + 1
           /\ TotalOf(u)' = TotalOf(u) + 1

C19_FailedAppendChangesNothing ==
    [][\A u \in Users :
          (last_call'.op = "add" /\ last_call'.user = u /\ last_call'.raised) =>
              /\ LinesOf(u)' = LinesOf(u)
              /\ TotalOf(u)' = TotalOf(u)
              /\ CountOf(u)' = CountOf(u)]_vars

\* C20: the profile.json of a user is at every moment a complete profile,
\* never a partly written one
C20_ProfileFileComplete ==
    \A u \in DOMAIN disk : disk[u].profile.kind # "partial"

FilesOf(u) == IF u \in DOMAIN disk THEN DOMAIN disk[u].files ELSE {}

\* C21: a memory file once written is never written again: every returning
\* append used a memory id that no memory file of that user had, also for
\* two appends of the same content within one second
C21_FreshMemoryId ==
    [][\A u \in Users :
          (last_call'.op = "add" /\ last_call'.user = u /\ ~last_call'.raised) =>
              LET lines == TargetLines(MemNow, u)'
              IN  lines[Len(lines)] \notin FilesOf(u)]_vars

\* C22: a search returns at most limit results, ordered by decreasing
\* relevance, and among results of equal relevance the memory appended
\* most recently comes first
C22_SearchOrder ==
    last_call.op = "search" =>
        LET r == last_call.results
        IN  /\ Len(r) <= last_call.limit
            /\ \A i, j \in 1..Len(r) :
                  i < j =>
                     /\ r[i].relevance_score >= r[j].relevance_score
                     /\ r[i].relevance_score = r[j].relevance_score
                           => r[i].pos > r[j].pos

HasProfile(u) == get_user_profile(MemNow, u).kind = "profile"
ProfileIndex(u) == IndexOf(MemNow, get_user_profile(MemNow, u))

\* C23: a returning append for user a changes only a's profile: the
\* context_lines and total_memories of every other user's profile and the
\* default template are after the append what they were before
C23_AppendTouchesOneUser ==
    [][\A a \in Users :
          (last_call'.op = "add" /\ last_call'.user = a /\ ~last_call'.raised) =>
              /\ default_template' = default_template
              /\ \A b \in Users \ {a} :
                    HasProfile(b) =>
                       /\ ProfileIndex(b)'.context_lines
                             = ProfileIndex(b).context_lines
                       /\ ProfileIndex(b)'.total_memories
                             = ProfileIndex(b).total_memories]_vars

\* the place of a dispatch in the order in which dispatches returned
Returned_at(h) ==
    CHOOSE i \in 1..Len(collapse_history) : collapse_history[i] = h
DispatchReturned(h) ==
    \E i \in 1..Len(collapse_history) : collapse_history[i] = h

\* C24: for one user the order of context_lines is the order in which the
\* user's dispatches completed: the memory of a dispatch that completed
\* earlier stands before the memory of one that completed later
C24_LinesInDispatchOrder ==
    \A h1, h2 \in Handlers :
       (/\ handlers[h1].user = handlers[h2].user
        /\ handlers[h1].append = "ok" /\ handlers[h2].append = "ok"
        /\ DispatchReturned(h1) /\ DispatchReturned(h2)
        /\ Returned_at(h1) < Returned_at(h2))
          => handlers[h1].line < handlers[h2].line

Range(seq) == {seq[i] : i \in 1..Len(seq)}

\* C25: for every input text the fragment activation the scorer returns has
\* at most three entries and contains lyra, however many other fragments
\* reach their threshold
C25_LyraAlwaysActive ==
    current_state.user_id \in Users =>
        /\ Len(current_state.dominant_fragments) <= 3
        /\ "lyra" \in Range(current_state.dominant_fragments)

\* the reply as the parts in their stated order, nothing else added
StatedReply(c) ==
    (IF c.wave_contribution.relevant_memories # << >>
       THEN <<"Based on our previous interactions, ">> ELSE << >>)
    \o (IF is_returning(c.wave_contribution.context_summary)
          THEN <<"Welcome back! ">> ELSE << >>)
    \o clean_response(c.particle_contribution)
    \o (IF primary_emotion(c.wave_contribution.emotion_profile) # "neutral"
          THEN <<" I can sense your ",
                 primary_emotion(c.wave_contribution.emotion_profile),
                 " energy and I'm here with you.">>
          ELSE << >>)
    \o (IF c.embedding_contribution.memory_context # no_memories
          THEN <<" Drawing from our shared memories: ",
                 c.embedding_contribution.memory_context>>
          ELSE << >>)

\* C26: the synthesised reply is exactly the memory prefix, the welcome, the
\* cleaned particle text, the emotion sentence and the shared-memories
\* suffix, each under its condition, with no character added before, between
\* or after them
C26_ReplyIsStatedParts ==
    \A i \in 1..Len(collapse_history) :
       collapse_history[i].response_content = StatedReply(collapse_history[i])

StateRank(state) ==
    IF state = "superposed" THEN 1 ELSE IF state = "collapsing" THEN 2 ELSE 3

\* C27: the state recorded for a superposition id only moves forward along
\* superposed, collapsing, collapsed and never returns to an earlier state,
\* also when two orders of one user created within the same second are
\* dispatched concurrently
C27_StateMovesForward ==
    [][\A sid \in DOMAIN active_superpositions :
          StateRank(active_superpositions'[sid].state)
             >= StateRank(active_superpositions[sid].state)]_vars

Quiescent ==
    /\ \A w \in DOMAIN worker : worker[w].pc \in {"get", "exited"}
    /\ qsize = 0
    /\ acked = {} /\ cleared = {} /\ cancel_pc = "idle"

\* C28: whenever all workers are idle and the queue is empty, and no request
\* was cancelled or cleared, active_requests is empty and total_processed +
\* total_failed equals total_queued, for every interleaving of the workers'
\* updates of the shared counters
C28_MetricsWithoutLoss ==
    Quiescent =>
        /\ active_requests = EmptyDict
        /\ stats.total_processed + stats.total_failed = stats.total_queued

\* C29: cancel_request always returns: it never blocks forever, also when a
\* worker takes the last queued request between the scan of the snapshot
\* and the removal
C29_CancelReturns == (cancel_pc = "get") ~> (cancel_pc = "idle")

\* C30: a memory appended for a user after one dispatch is among the last
\* context lines rendered into the particle prompt of the user's next
\* dispatch in the same process
C30_PromptHasAppendedMemory ==
    [][Len(handlers') = Len(handlers) + 1 =>
          LET new == handlers'[Len(handlers')]
              lines == TargetLines(MemNow, new.user)
          IN  \A h \in Handlers :
                 (/\ handlers[h].user = new.user
                  /\ handlers[h].append = "ok"
                  /\ handlers[h].line > Len(lines) - context_window)
                    => lines[handlers[h].line] \in Range(new.prompt)]_vars

====
